---- MODULE Spec2Model ----
(***************************************************************************)
(* Model of the videopipesink element (src/src/videopipesink/imp.rs): a    *)
(* GStreamer sink that spawns `sh -c <cmd>`, writes every rendered buffer  *)
(* to the child's stdin, drains the child's stdout/stderr on two threads   *)
(* and tears the child down in stop.                                       *)
(*                                                                         *)
(* The element's two mutexes, the OS process table, the stdin pipe and the *)
(* drain threads are modelled explicitly; the subprocess and the drain     *)
(* threads run concurrently with the element's calls.                      *)
(***************************************************************************)
EXTENDS Integers, Sequences, FiniteSets, TLC

(* ------------------------------ bounds -------------------------------- *)
\* capacity of the OS pipe behind the child's stdin, in bytes
PipeCap == 1
\* number of processes the model lets start spawn
MaxProcs == 2
\* number of render calls the model lets the upstream issue
MaxRenders == 2
\* `head -c HeadK`: bytes the "head" command consumes before it exits
HeadK == 1

(* --------------------------- program constants ------------------------ *)
\* gst::ClockTime::from_mseconds: a ClockTime counts nanoseconds
FromMseconds(ms) == ms * 1000000

WAIT_FOR_EXIT_DEFAULT == FromMseconds(100)

(* ------------------------------ inputs -------------------------------- *)
\* the streaming thread of the framework, and an application thread
Framework == 1
Threads == {1, 2}

\* values of the cmd property: unset, `cat > F`, `head -c K >/dev/null && exit 1`
Cmds == {"", "cat", "head"}
\* commands that never read their stdin and run until they are signalled:
\* `exec sleep N`, and `sleep N; true`, where the shell waits for a further
\* process that has inherited the three pipes
IdleCmds == {"sleep", "fork"}
\* a command line whose program the shell cannot find: `sh -c` is spawned,
\* reads nothing and exits with status 127
BadCmd == "bad"
\* number of lines the stderr pipe holds before a write to it blocks
ErrCap == 1
\* a stderr line that is not valid UTF-8
Undecodable == "bad"
\* what a command writes to its stderr before it reads its stdin; "noisy" is
\* a command that writes more diagnostics than the pipe holds
ErrScript(cmd) ==
  IF cmd = "noisy" THEN <<"e1", Undecodable, "e2">> ELSE <<>>
\* values of the wait-for-exit property (milliseconds)
Waits == {0, WAIT_FOR_EXIT_DEFAULT}
\* raw video formats VideoInfo::from_caps can parse, and all caps offered
Formats == {"RGB", "I420"}
Caps == Formats \cup {"ANY"}
\* buffer payloads handed to render
Buffers == {<<1>>, <<2, 3>>}
\* what the OS does on a start: succeed, fail current_dir(), fail spawn()
OsOutcomes == {"ok", "cwd_err", "spawn_err"}

(* --------------------------- Option<T> -------------------------------- *)
None == <<>>
Some(x) == <<x>>
IsSome(o) == o # <<>>
Unwrap(o) == o[1]

Min(a, b) == IF a <= b THEN a ELSE b

\* value of a mutex whose guard was dropped by a panic; 0 is free
Poisoned == -1

VARIABLES
  settings,      \* Mutex<Settings> contents: cmd, wait_for_exit
  state,         \* Mutex<State> contents
  settingsLock,  \* holder of the settings mutex, 0 when free
  stateLock,     \* holder of the state mutex, 0 when free
  pc,            \* per thread: position inside the call it is executing
  frame,         \* per thread: locals of the call it is executing
  procs,         \* OS process table, indexed by pid
  renderLog,     \* render calls since the last spawn: caller, pid, payload,
                 \* result
  lastRet        \* per thread: last call completed and its result

vars == <<settings, state, settingsLock, stateLock, pc, frame, procs,
          renderLog, lastRet>>

(* ------------------------ Settings and State -------------------------- *)
SettingsDefault ==
  [cmd |-> "", wait_for_exit |-> WAIT_FOR_EXIT_DEFAULT]

StateDefault ==
  [child_process |-> None, video_info |-> None, cmd |-> "",
   stdout_thread |-> None, stderr_thread |-> None]

\* locals of a call: stop's child, pid and the time it slept; render's
\* payload still to be written
FrameIdle ==
  [child |-> None, pid |-> 0, rest |-> <<>>, slept |-> 0, werr |-> FALSE]

(* ------------------------- OS: processes ------------------------------ *)
\* a process just created by Command::spawn with three pipes, and the two
\* threads draining its stdout and stderr.  written, got and hup record what
\* happened to it: the bytes written to its stdin, the bytes it read, and the
\* status it had when SIGHUP was sent to its pid; held says that a further
\* process started by the shell holds the write ends of stdout and stderr;
\* errTodo are the lines it has still to write to stderr, errPipe the lines in
\* the stderr pipe, errLog the lines the drain thread has logged
NewProc(cmd) ==
  [cmd |-> cmd, status |-> "running", exit |-> "none",
   held |-> cmd = "fork",
   stdinW |-> TRUE, pipe |-> <<>>,
   need |-> IF cmd = "head" THEN HeadK ELSE 0,
   written |-> <<>>, got |-> <<>>, hup |-> "none",
   errTodo |-> ErrScript(cmd), errPipe |-> <<>>, errLog |-> <<>>,
   outT |-> "running", errT |-> "running"]

\* the records of earlier processes when a new cycle begins: the recorded
\* history is dropped, and nothing is left of a process that was reaped
Forget(proc) ==
  IF proc.status = "reaped"
    THEN [proc EXCEPT !.cmd = "", !.exit = "none", !.need = 0,
                      !.written = <<>>, !.got = <<>>, !.hup = "none",
                      !.errLog = <<>>]
    ELSE [proc EXCEPT !.written = <<>>, !.got = <<>>, !.hup = "none",
                      !.errLog = <<>>]

\* the process ends: it becomes a zombie, its end of every pipe is closed and
\* what was still unread in its stdin pipe is discarded
ProcTerminate(proc, how) ==
  [proc EXCEPT !.status = "zombie", !.exit = how, !.pipe = <<>>,
               !.errTodo = <<>>]

\* number of bytes the process still wants to read from stdin
ProcWant(proc) ==
  IF proc.cmd = "head" THEN proc.need
  ELSE IF proc.cmd \in IdleCmds \cup {BadCmd} \/ proc.errTodo # <<>> THEN 0
  ELSE Len(proc.pipe)

\* read(2) at end-of-input: the pipe is empty and no write end is open
ProcAtEof(proc) == proc.pipe = <<>> /\ ~proc.stdinW

\* exit code the shell command ends with when it ends by itself
ProcExitCode(proc) ==
  IF proc.cmd = "head" THEN "code1"
  ELSE IF proc.cmd = BadCmd THEN "code127"
  ELSE "code0"

\* the shell command is done: it saw end-of-input, or head consumed its share
ProcFinished(proc) ==
  \/ ProcAtEof(proc) /\ proc.cmd \notin IdleCmds /\ proc.errTodo = <<>>
  \/ proc.cmd = "head" /\ proc.need = 0
  \/ proc.cmd = BadCmd

\* the write ends of the process's stdout and stderr are all closed: the
\* process has ended and no further process holds them
OutputClosed(proc) == proc.status # "running" /\ ~proc.held

\* delivery of SIGHUP: default disposition terminates a running process
ProcOnSighup(proc) ==
  IF proc.status = "running"
    THEN [ProcTerminate(proc, "signal") EXCEPT !.hup = proc.status]
    ELSE [proc EXCEPT !.hup = proc.status]

\* one write(2) on the stdin pipe: EPIPE when the read end is gone, otherwise
\* as many bytes as fit (the caller blocks while n = 0)
PipeWrite(proc, data) ==
  IF proc.status # "running"
    THEN [err |-> TRUE, n |-> 0, proc |-> proc]
    ELSE LET n == Min(PipeCap - Len(proc.pipe), Len(data))
             d == SubSeq(data, 1, n)
         IN [err |-> FALSE, n |-> n,
             proc |-> [proc EXCEPT !.pipe = @ \o d, !.written = @ \o d]]

(* ------------------------- std::process::Child ------------------------ *)
\* as TryWait, but a child found running is sent SIGHUP
TryWaitSignals(child, proc, qfail) ==
  IF child.status # "none"
    THEN [res |-> "exited", child |-> child, proc |-> proc]
  ELSE IF qfail
    THEN [res |-> "err", child |-> child, proc |-> proc]
  ELSE IF proc.status = "zombie"
    THEN [res |-> "exited",
          child |-> [child EXCEPT !.status = proc.exit],
          proc |-> [proc EXCEPT !.status = "reaped"]]
  ELSE [res |-> "running", child |-> child, proc |-> ProcOnSighup(proc)]

\* Child::try_wait: the cached status if the child was reaped before, else
\* waitpid(WNOHANG), which reaps a zombie and caches its status
TryWait(child, proc, qfail) ==
  IF child.status # "none"
    THEN [res |-> "exited", child |-> child, proc |-> proc]
  ELSE IF qfail
    THEN [res |-> "err", child |-> child, proc |-> proc]
  ELSE IF proc.status = "zombie"
    THEN [res |-> "exited",
          child |-> [child EXCEPT !.status = proc.exit],
          proc |-> [proc EXCEPT !.status = "reaped"]]
  ELSE [res |-> "running", child |-> child, proc |-> proc]

\* dropping a Child closes its stdin write end; it neither kills nor reaps
DropChild(ps, childOpt) ==
  IF IsSome(childOpt)
    THEN [ps EXCEPT ![Unwrap(childOpt).pid].stdinW = FALSE]
    ELSE ps

(* ------------------------------ Init ---------------------------------- *)
Init ==
  /\ settings = SettingsDefault
  /\ state = StateDefault
  /\ settingsLock = 0
  /\ stateLock = 0
  /\ pc = [t \in Threads |-> "idle"]
  /\ frame = [t \in Threads |-> FrameIdle]
  /\ procs = <<>>
  /\ renderLog = <<>>
  /\ lastRet = [t \in Threads |-> [op |-> "new", res |-> "Ok"]]

\* the call returns to its caller with result res
Return(t, op, res) ==
  /\ pc' = [pc EXCEPT ![t] = "idle"]
  /\ lastRet' = [lastRet EXCEPT ![t] = [op |-> op, res |-> res]]

(* --------------------------- set_property ----------------------------- *)
SetProperty(s, name, value) ==
  IF name = "cmd" THEN [s EXCEPT !.cmd = value]
  ELSE [s EXCEPT !.wait_for_exit = value]

set_property(t, name, value) ==
  /\ pc[t] = "idle"
  /\ settingsLock = 0
  /\ settings' = SetProperty(settings, name, value)
  /\ UNCHANGED <<state, settingsLock, stateLock, pc, frame, procs,
                 renderLog, lastRet>>

(* ------------------------------ property ------------------------------ *)
PropNames == {"cmd", "wait-for-exit"}
PropValues(name) == IF name = "cmd" THEN Cmds ELSE Waits

\* as Property, with wait-for-exit reported as the ParamSpec's default_value
PropertyParamSpecDefault(s, name) ==
  IF name = "cmd" THEN s.cmd ELSE 0

\* the value of the property that is read
Property(s, name) ==
  IF name = "cmd" THEN s.cmd ELSE s.wait_for_exit

property(t, name) ==
  /\ pc[t] = "idle"
  /\ settingsLock = 0
  /\ lastRet' = [lastRet EXCEPT ![t] =
                   [op |-> "property", res |-> name,
                    value |-> Property(settings, name)]]
  /\ UNCHANGED <<settings, state, settingsLock, stateLock, pc, frame,
                 procs, renderLog>>

(* ------------------------------ set_caps ------------------------------ *)
\* VideoInfo::from_caps: Some(info) for parseable caps, None for an error
VideoInfoFromCaps(caps) ==
  IF caps \in Formats THEN Some(caps) ELSE None

\* as SetCapsState, but a parse error stores the missing info
SetCapsStateClearsOnError(st, caps) ==
  [st EXCEPT !.video_info = VideoInfoFromCaps(caps)]

\* as SetCapsState, but new caps end the process in use
SetCapsStateDropsChild(st, caps) ==
  IF IsSome(VideoInfoFromCaps(caps))
    THEN [st EXCEPT !.video_info = VideoInfoFromCaps(caps),
                    !.child_process = None]
    ELSE st

\* state.video_info = Some(info) when the caps parse; no other field is
\* assigned
SetCapsState(st, caps) ==
  IF IsSome(VideoInfoFromCaps(caps))
    THEN [st EXCEPT !.video_info = VideoInfoFromCaps(caps)]
    ELSE st

SetCapsResult(caps) ==
  IF IsSome(VideoInfoFromCaps(caps)) THEN "Ok" ELSE "CapsError"

set_caps(t, caps) ==
  /\ pc[t] = "idle"
  /\ stateLock = 0
  /\ state' = SetCapsState(state, caps)
  /\ Return(t, "set_caps", SetCapsResult(caps))
  /\ UNCHANGED <<settings, settingsLock, stateLock, frame, procs,
                 renderLog>>

(* -------------------------------- start ------------------------------- *)
\* first statement of start: take the settings mutex
start_lock_settings(t, restart) ==
  /\ pc[t] = "idle"
  /\ restart \/ ~IsSome(state.child_process)
  /\ settingsLock = 0
  /\ settingsLock' = t
  /\ pc' = [pc EXCEPT ![t] = "start"]
  /\ UNCHANGED <<settings, state, stateLock, frame, procs,
                 renderLog, lastRet>>

\* as StartResult, without the is_empty check
StartResultNoCmdCheck(cmd, os) ==
  IF os # "ok" THEN "Failed" ELSE "Ok"

\* as StartResult, with the spawn error swallowed
StartResultIgnoresSpawnError(cmd, os) ==
  IF cmd = "" THEN "Settings"
  ELSE IF os = "cwd_err" THEN "Failed"
  ELSE "Ok"

\* result of start for the configured command and the OS's behaviour
StartResult(cmd, os) ==
  IF cmd = "" THEN "Settings"
  ELSE IF os # "ok" THEN "Failed"
  ELSE "Ok"

\* as StartState, but the handle of the stderr thread is not stored
StartStateNoStderr(st, cmd, pid) ==
  [st EXCEPT !.child_process = Some([pid |-> pid, status |-> "none"]),
             !.stdout_thread = Some(pid),
             !.cmd = cmd]

\* State after a successful spawn of process pid
StartState(st, cmd, pid) ==
  [st EXCEPT !.child_process = Some([pid |-> pid, status |-> "none"]),
             !.stdout_thread = Some(pid),
             !.stderr_thread = Some(pid),
             !.cmd = cmd]

\* as SpawnCmd, with the command recorded by the previous start
SpawnCmdStale(s, st) == st.cmd

\* the command line handed to `sh -c`
SpawnCmd(s, st) == s.cmd

\* the rest of start, under both mutexes
start(t, os) ==
  /\ pc[t] = "start"
  /\ stateLock = 0
  /\ os = "ok" => Len(procs) < MaxProcs
  /\ LET res == StartResult(settings.cmd, os)
         pid == Len(procs) + 1
     IN /\ IF res = "Ok"
             THEN /\ state' = StartState(state, settings.cmd, pid)
                  /\ procs' = Append(
                       [p \in 1..Len(procs) |->
                          Forget(DropChild(procs, state.child_process)[p])],
                       NewProc(SpawnCmd(settings, state)))
                  /\ renderLog' = <<>>
             ELSE UNCHANGED <<state, procs, renderLog>>
        /\ Return(t, "start", res)
  /\ settingsLock' = 0
  /\ UNCHANGED <<settings, stateLock, frame>>

(* -------------------------------- stop -------------------------------- *)
\* as StopGuard, but the guard is dropped before the shutdown sequence
StopGuardDropped(t) == 0

\* the owner of the state mutex while stop runs: the guard taken in stop's
\* first statement lives to the end of the function
StopGuard(t) == t

\* lock the state, take the child out of it and drop its stdin
stop_take_child(t) ==
  /\ pc[t] = "idle"
  /\ stateLock = 0
  /\ stateLock' = StopGuard(t)
  /\ IF IsSome(state.child_process)
       THEN /\ state' = [state EXCEPT !.child_process = None]
            /\ frame' = [frame EXCEPT
                           ![t].child = state.child_process,
                           ![t].pid = Unwrap(state.child_process).pid]
            /\ procs' = DropChild(procs, state.child_process)
            /\ pc' = [pc EXCEPT ![t] = "stop_sleep"]
       ELSE /\ pc' = [pc EXCEPT ![t] = "stop_join_stdout"]
            /\ UNCHANGED <<state, frame, procs>>
  /\ UNCHANGED <<settings, settingsLock, renderLog, lastRet>>

\* as SleepTime, with the default in place of the configured value
SleepTimeDefault(s) == WAIT_FOR_EXIT_DEFAULT

\* the duration stop sleeps for: read from the settings it has just locked
SleepTime(s) == s.wait_for_exit

\* lock the settings and sleep for wait_for_exit
stop_sleep(t) ==
  /\ pc[t] = "stop_sleep"
  /\ settingsLock = 0
  /\ settingsLock' = t
  /\ frame' = [frame EXCEPT ![t].slept = SleepTime(settings)]
  /\ pc' = [pc EXCEPT ![t] = "stop_kill"]
  /\ UNCHANGED <<settings, state, stateLock, procs, renderLog,
                 lastRet>>

\* as StopSignal, but no signal is sent to a process that has exited
StopSignalIfRunning(ps, pid) ==
  IF ps[pid].status = "running"
    THEN [ps EXCEPT ![pid] = ProcOnSighup(@)]
    ELSE ps

\* the kill call of stop: unconditional
StopSignal(ps, pid) == [ps EXCEPT ![pid] = ProcOnSighup(@)]

\* libc::kill(child.id(), SIGHUP)
stop_kill(t) ==
  /\ pc[t] = "stop_kill"
  /\ LET pid == Unwrap(frame[t].child).pid
     IN procs' = StopSignal(procs, pid)
  /\ pc' = [pc EXCEPT ![t] = "stop_wait"]
  /\ UNCHANGED <<settings, state, settingsLock, stateLock, frame, renderLog,
                 lastRet>>

\* child.wait(): blocks until the child has exited, reaps it; with werr the
\* call returns Err, which is logged as a warning.  At the end of the block
\* the Child and the settings guard are dropped
stop_wait(t, werr) ==
  /\ pc[t] = "stop_wait"
  /\ LET child == Unwrap(frame[t].child)
     IN /\ child.status # "none" \/ procs[child.pid].status = "zombie"
        /\ procs' = [procs EXCEPT ![child.pid].status = "reaped"]
  /\ frame' = [frame EXCEPT ![t].child = None, ![t].werr = werr]
  /\ settingsLock' = 0
  /\ pc' = [pc EXCEPT ![t] = "stop_join_stdout"]
  /\ UNCHANGED <<settings, state, stateLock, renderLog, lastRet>>

\* as StopTakeStdout, but the handle is left in the state
StopTakeStdoutKeepsHandle(st) == st

\* state.stdout_thread.take()
StopTakeStdout(st) == [st EXCEPT !.stdout_thread = None]

\* as StopClear, but the negotiated format is kept
StopClearKeepsFormat(st) == [st EXCEPT !.stderr_thread = None]

\* state.stderr_thread.take() and state.video_info = None
StopClear(st) == [st EXCEPT !.stderr_thread = None, !.video_info = None]

\* thread.join().unwrap() on a thread that panicked: stop unwinds with the
\* state guard, which poisons the mutex; the framework's panic guard turns
\* the panic into a failed call and calls the element's methods no more
StopPanics(t) ==
  /\ stateLock' = Poisoned
  /\ frame' = [frame EXCEPT ![t] = FrameIdle]
  /\ Return(t, "stop", "Panic")

\* state.stdout_thread.take(), thread.join()
stop_join_stdout(t) ==
  /\ pc[t] = "stop_join_stdout"
  /\ IsSome(state.stdout_thread) =>
       procs[Unwrap(state.stdout_thread)].outT # "running"
  /\ state' = StopTakeStdout(state)
  /\ IF IsSome(state.stdout_thread)
        /\ procs[Unwrap(state.stdout_thread)].outT = "panicked"
       THEN StopPanics(t)
       ELSE /\ pc' = [pc EXCEPT ![t] = "stop_join_stderr"]
            /\ UNCHANGED <<stateLock, frame, lastRet>>
  /\ UNCHANGED <<settings, settingsLock, procs, renderLog>>

\* state.stderr_thread.take(), thread.join(); clear video_info; return Ok
stop_join_stderr(t) ==
  /\ pc[t] = "stop_join_stderr"
  /\ IsSome(state.stderr_thread) =>
       procs[Unwrap(state.stderr_thread)].errT # "running"
  /\ IF IsSome(state.stderr_thread)
        /\ procs[Unwrap(state.stderr_thread)].errT = "panicked"
       THEN /\ state' = [state EXCEPT !.stderr_thread = None]
            /\ StopPanics(t)
       ELSE /\ state' = StopClear(state)
            /\ stateLock' = 0
            /\ frame' = [frame EXCEPT ![t] = FrameIdle]
            /\ Return(t, "stop", "Ok")
  /\ UNCHANGED <<settings, settingsLock, procs, renderLog>>

(* ------------------------------- render ------------------------------ *)
\* as RenderGate, but an exited child is not treated as an error
RenderGateIgnoresExit(st, ps, qfail) ==
  IF ~IsSome(st.video_info) THEN "NotNegotiated"
  ELSE IF ~IsSome(st.child_process) THEN "Error"
  ELSE LET child == Unwrap(st.child_process)
       IN IF TryWait(child, ps[child.pid], qfail).res = "running"
            THEN "Write"
            ELSE "Ok"

\* as RenderGate, without the not-negotiated rejection
RenderGateNoFormatCheck(st, ps, qfail) ==
  IF ~IsSome(st.child_process) THEN "Error"
  ELSE LET child == Unwrap(st.child_process)
       IN IF TryWait(child, ps[child.pid], qfail).res = "running"
            THEN "Write"
            ELSE "Error"

\* as RenderGate, but the child is checked before the format
RenderGateChildFirst(st, ps, qfail) ==
  IF ~IsSome(st.child_process)
    THEN IF ~IsSome(st.video_info) THEN "NotNegotiated" ELSE "Error"
  ELSE LET child == Unwrap(st.child_process)
       IN IF TryWait(child, ps[child.pid], qfail).res = "running"
            THEN "Write"
            ELSE "Error"

\* as RenderGate, but a missing child is reported as not negotiated
RenderGateNoChildNotNegotiated(st, ps, qfail) ==
  IF ~IsSome(st.video_info) THEN "NotNegotiated"
  ELSE IF ~IsSome(st.child_process) THEN "NotNegotiated"
  ELSE LET child == Unwrap(st.child_process)
       IN IF TryWait(child, ps[child.pid], qfail).res = "running"
            THEN "Write"
            ELSE "Error"

\* what render decides before it writes: the not-negotiated rejection, the
\* missing-process rejection, the liveness query, or go on to write
RenderGate(st, ps, qfail) ==
  IF ~IsSome(st.video_info) THEN "NotNegotiated"
  ELSE IF ~IsSome(st.child_process) THEN "Error"
  ELSE LET child == Unwrap(st.child_process)
       IN IF TryWait(child, ps[child.pid], qfail).res = "running"
            THEN "Write"
            ELSE "Error"

\* the pid render logs: the child it looked at, 0 when there is none
RenderPid(st) ==
  IF IsSome(st.child_process) THEN Unwrap(st.child_process).pid ELSE 0

\* as RenderState, but a child found exited is taken out of the state
RenderStateDropsExited(st, tw) ==
  IF tw.res = "exited"
    THEN [st EXCEPT !.child_process = None]
    ELSE [st EXCEPT !.child_process = Some(tw.child)]

\* the state after c.try_wait() on the child borrowed from it: the child stays
\* where it is, with the exit status try_wait cached in it
RenderState(st, tw) == [st EXCEPT !.child_process = Some(tw.child)]

\* lock the state, check the format, query the child's liveness
render(t, buf, qfail) ==
  /\ pc[t] = "idle"
  /\ stateLock = 0
  /\ Len(renderLog) < MaxRenders
  /\ LET gate == RenderGate(state, procs, qfail)
         pid == RenderPid(state)
     IN /\ IF IsSome(state.video_info) /\ pid # 0
             THEN LET tw == TryWait(Unwrap(state.child_process),
                                    procs[pid], qfail)
                  IN /\ state' = RenderState(state, tw)
                     /\ procs' = [procs EXCEPT ![pid] = tw.proc]
             ELSE UNCHANGED <<state, procs>>
        /\ IF gate = "Write"
             THEN /\ stateLock' = t
                  /\ frame' = [frame EXCEPT ![t].rest = buf]
                  /\ pc' = [pc EXCEPT ![t] = "render_write_all"]
                  /\ renderLog' = Append(renderLog,
                       [by |-> t, pid |-> pid, buf |-> buf,
                        res |-> "pending"])
                  /\ UNCHANGED lastRet
             ELSE /\ renderLog' = Append(renderLog,
                       [by |-> t, pid |-> pid, buf |-> buf, res |-> gate])
                  /\ Return(t, "render", gate)
                  /\ UNCHANGED <<stateLock, frame>>
  /\ UNCHANGED <<settings, settingsLock>>

\* as RenderDone, but what was not written stays with the thread
RenderDoneKeepsRest(t, res) ==
  /\ renderLog' = [renderLog EXCEPT ![Len(renderLog)].res = res]
  /\ frame' = frame
  /\ stateLock' = 0
  /\ Return(t, "render", res)

\* the render call in progress ends with result res
RenderDone(t, res) ==
  /\ renderLog' = [renderLog EXCEPT ![Len(renderLog)].res = res]
  /\ frame' = [frame EXCEPT ![t] = FrameIdle]
  /\ stateLock' = 0
  /\ Return(t, "render", res)

\* as WriteAllDone, but one write(2) is taken to be enough
WriteAllDoneAfterOneWrite(rest, n) == TRUE

\* write_all is done when a write has taken all that was left of the payload
WriteAllDone(rest, n) == n = Len(rest)

\* stdin.write_all(&mapped_buffer) followed by stdin.flush(): one write(2)
\* per step until the payload is written or a write fails
render_write_all(t) ==
  /\ pc[t] = "render_write_all"
  /\ LET pid == Unwrap(state.child_process).pid
         w == PipeWrite(procs[pid], frame[t].rest)
     IN IF w.err
          THEN /\ RenderDone(t, "Error")
               /\ UNCHANGED procs
          ELSE /\ w.n > 0
               /\ procs' = [procs EXCEPT ![pid] = w.proc]
               /\ IF WriteAllDone(frame[t].rest, w.n)
                    THEN RenderDone(t, "Ok")
                    ELSE /\ frame' = [frame EXCEPT ![t].rest =
                               SubSeq(@, w.n + 1, Len(@))]
                         /\ UNCHANGED <<renderLog, stateLock, pc, lastRet>>
  /\ UNCHANGED <<settings, state, settingsLock>>

(* --------------------------- unlock, unlock_stop ---------------------- *)
\* as UnlockReady, with unlock taking the state mutex
UnlockReadyWithState(t) == pc[t] = "idle" /\ stateLock = 0

\* thread t can run unlock or unlock_stop: they take no mutex
UnlockReady(t) == pc[t] = "idle"

\* unlock: Ok(())
unlock(t) ==
  /\ UnlockReady(t)
  /\ Return(t, "unlock", "Ok")
  /\ UNCHANGED <<settings, state, settingsLock, stateLock, frame, procs,
                 renderLog>>

\* unlock_stop: Ok(())
unlock_stop(t) ==
  /\ UnlockReady(t)
  /\ Return(t, "unlock_stop", "Ok")
  /\ UNCHANGED <<settings, state, settingsLock, stateLock, frame, procs,
                 renderLog>>

(* --------------------------- the subprocess --------------------------- *)
\* read(2) on stdin
proc_read(p) ==
  /\ procs[p].status = "running"
  /\ LET n == Min(ProcWant(procs[p]), Len(procs[p].pipe))
     IN /\ n > 0
        /\ procs' = [procs EXCEPT
                       ![p].got = @ \o SubSeq(procs[p].pipe, 1, n),
                       ![p].need = IF @ >= n THEN @ - n ELSE 0,
                       ![p].pipe = SubSeq(@, n + 1, Len(@))]
  /\ UNCHANGED <<settings, state, settingsLock, stateLock, pc, frame,
                 renderLog, lastRet>>

\* the shell command ends by itself
proc_exit(p) ==
  /\ procs[p].status = "running"
  /\ ProcFinished(procs[p])
  /\ procs' = [procs EXCEPT ![p] = ProcTerminate(@, ProcExitCode(@))]
  /\ UNCHANGED <<settings, state, settingsLock, stateLock, pc, frame,
                 renderLog, lastRet>>

\* write(2) of one line on stderr: blocks while the pipe is full
proc_write_stderr(p) ==
  /\ procs[p].status = "running"
  /\ procs[p].errTodo # <<>>
  /\ Len(procs[p].errPipe) < ErrCap
  /\ procs' = [procs EXCEPT
                 ![p].errPipe = Append(@, Head(procs[p].errTodo)),
                 ![p].errTodo = Tail(@)]
  /\ UNCHANGED <<settings, state, settingsLock, stateLock, pc, frame,
                 renderLog, lastRet>>

(* --------------------------- drain threads ---------------------------- *)
\* reader.lines() on the child's stdout reaches end-of-stream
stdout_thread(p) ==
  /\ procs[p].outT = "running"
  /\ OutputClosed(procs[p])
  /\ procs' = [procs EXCEPT ![p].outT = "done"]
  /\ UNCHANGED <<settings, state, settingsLock, stateLock, pc, frame,
                 renderLog, lastRet>>

\* as StderrReady, with the drain thread taking the state mutex for a line
StderrReadyUnderLock(proc) == proc.errT = "running" /\ stateLock = 0

\* the stderr thread can take its next step: it holds no lock
StderrReady(proc) == proc.errT = "running"

\* what the thread logs of a line: a line that fails decoding is skipped
LogLine(log, line) ==
  IF line = Undecodable THEN log ELSE Append(log, line)

\* as AfterLine, but an Err item ends the loop
AfterLineBreaksOnErr(line) ==
  IF line = Undecodable THEN "done" ELSE "running"

\* the thread after an item of reader.lines(): the loop goes on, whether the
\* item was Ok or Err
AfterLine(line) == "running"

\* one turn of `for line in reader.lines()` on the child's stderr: the next
\* line is logged, or end-of-stream ends the thread
stderr_thread(p) ==
  /\ StderrReady(procs[p])
  /\ IF procs[p].errPipe # <<>>
       THEN procs' = [procs EXCEPT
                        ![p].errLog = LogLine(@, Head(procs[p].errPipe)),
                        ![p].errT = AfterLine(Head(procs[p].errPipe)),
                        ![p].errPipe = Tail(@)]
       ELSE /\ OutputClosed(procs[p])
            /\ procs' = [procs EXCEPT ![p].errT = "done"]
  /\ UNCHANGED <<settings, state, settingsLock, stateLock, pc, frame,
                 renderLog, lastRet>>

\* the closure run by the stdout thread panics
stdout_thread_panic(p) ==
  /\ procs[p].outT = "running"
  /\ procs' = [procs EXCEPT ![p].outT = "panicked"]
  /\ UNCHANGED <<settings, state, settingsLock, stateLock, pc, frame,
                 renderLog, lastRet>>

\* the closure run by the stderr thread panics
stderr_thread_panic(p) ==
  /\ procs[p].errT = "running"
  /\ procs' = [procs EXCEPT ![p].errT = "panicked"]
  /\ UNCHANGED <<settings, state, settingsLock, stateLock, pc, frame,
                 renderLog, lastRet>>

(* --------------------------- specification ---------------------------- *)
\* the calls thread t can make or continue
Call(t, restart) ==
  \/ \E c \in Cmds : set_property(t, "cmd", c)
  \/ \E w \in Waits : set_property(t, "wait-for-exit", w)
  \/ \E caps \in Caps : set_caps(t, caps)
  \/ start_lock_settings(t, restart)
  \/ \E os \in OsOutcomes : start(t, os)
  \/ stop_take_child(t)
  \/ stop_sleep(t)
  \/ stop_kill(t)
  \/ stop_wait(t, FALSE)
  \/ stop_join_stdout(t)
  \/ stop_join_stderr(t)
  \/ \E buf \in Buffers, qfail \in BOOLEAN : render(t, buf, qfail)
  \/ render_write_all(t)

\* what runs concurrently with the calls: the subprocesses and the drains
Background ==
  \/ \E p \in 1..Len(procs) : proc_read(p)
  \/ \E p \in 1..Len(procs) : proc_exit(p)
  \/ \E p \in 1..Len(procs) : stdout_thread(p)
  \/ \E p \in 1..Len(procs) : stderr_thread(p)

\* the framework serialises negotiation, start, render and stop, and calls
\* start only when the element is stopped
Next == Call(Framework, FALSE) \/ Background

Spec == Init /\ [][Next]_vars

\* the element when the caller may call start while a process is present:
\* set_caps, start, render and stop in any order, with one command
CallRestart(t) ==
  \/ set_property(t, "cmd", "cat")
  \/ \E caps \in Formats : set_caps(t, caps)
  \/ start_lock_settings(t, TRUE)
  \/ start(t, "ok")
  \/ stop_take_child(t)
  \/ stop_sleep(t)
  \/ stop_kill(t)
  \/ stop_wait(t, FALSE)
  \/ stop_join_stdout(t)
  \/ stop_join_stderr(t)
  \/ \E buf \in Buffers : render(t, buf, FALSE)
  \/ render_write_all(t)

NextRestart == CallRestart(Framework) \/ Background

SpecRestart == Init /\ [][NextRestart]_vars

\* the properties of an instance, written and read by two threads
NextProps ==
  \/ \E t \in Threads, name \in PropNames :
       \E value \in PropValues(name) : set_property(t, name, value)
  \/ \E t \in Threads, name \in PropNames : property(t, name)

SpecProps == Init /\ [][NextProps]_vars

\* the calls of a run that is serialised by the framework, with the command
\* taken from cmds and no failure injected by the OS; restart says whether
\* start is also called while a process is present
CallCmds(t, cmds, restart) ==
  \/ \E c \in cmds : set_property(t, "cmd", c)
  \/ \E caps \in Formats : set_caps(t, caps)
  \/ start_lock_settings(t, restart)
  \/ start(t, "ok")
  \/ stop_take_child(t)
  \/ stop_sleep(t)
  \/ stop_kill(t)
  \/ stop_wait(t, FALSE)
  \/ stop_join_stdout(t)
  \/ stop_join_stderr(t)
  \/ \E buf \in Buffers : render(t, buf, FALSE)
  \/ render_write_all(t)

\* the element run with a command the shell cannot run
NextBad == CallCmds(Framework, {"cat", BadCmd}, FALSE) \/ Background

\* the element run with a command that exits by itself, when the caller may
\* call start while a process is present
NextRespawn == CallCmds(Framework, {"head"}, TRUE) \/ Background

SpecRespawn == Init /\ [][NextRespawn]_vars

SpecBad == Init /\ [][NextBad]_vars

\* render and stop called by a second thread while the framework's thread
\* makes its calls
CallApp(t) ==
  \/ stop_take_child(t)
  \/ stop_sleep(t)
  \/ stop_kill(t)
  \/ stop_wait(t, FALSE)
  \/ stop_join_stdout(t)
  \/ stop_join_stderr(t)
  \/ \E buf \in Buffers : render(t, buf, FALSE)
  \/ render_write_all(t)

NextConc ==
  \/ CallCmds(Framework, {"cat"}, FALSE)
  \/ \E t \in Threads \ {Framework} : CallApp(t)
  \/ Background

SpecConc == Init /\ [][NextConc]_vars

\* unlock and unlock_stop called by a second thread while the framework's
\* thread makes its calls
NextUnlock ==
  \/ CallCmds(Framework, {"cat"}, FALSE)
  \/ \E t \in Threads \ {Framework} : unlock(t)
  \/ \E t \in Threads \ {Framework} : unlock_stop(t)
  \/ Background

SpecUnlock == Init /\ [][NextUnlock]_vars

\* the element run with a command that writes to its stderr
CallErr(t) ==
  \/ set_property(t, "cmd", "noisy")
  \/ \E caps \in Formats : set_caps(t, caps)
  \/ start_lock_settings(t, FALSE)
  \/ start(t, "ok")
  \/ stop_take_child(t)
  \/ stop_sleep(t)
  \/ stop_kill(t)
  \/ stop_wait(t, FALSE)
  \/ stop_join_stdout(t)
  \/ stop_join_stderr(t)
  \/ \E buf \in Buffers : render(t, buf, FALSE)
  \/ render_write_all(t)

NextErr ==
  \/ CallErr(Framework)
  \/ Background
  \/ \E p \in 1..Len(procs) : proc_write_stderr(p)

SpecErr == Init /\ [][NextErr]_vars

\* the element run with commands that ignore their stdin; the steps that
\* continue a call, and the steps of the subprocess and of the drain threads,
\* are scheduled fairly
CallLive(t) ==
  \/ \E c \in IdleCmds \cup {"cat"} : set_property(t, "cmd", c)
  \/ \E caps \in Formats : set_caps(t, caps)
  \/ start_lock_settings(t, FALSE)
  \/ start(t, "ok")
  \/ stop_take_child(t)
  \/ stop_sleep(t)
  \/ stop_kill(t)
  \/ stop_wait(t, FALSE)
  \/ stop_join_stdout(t)
  \/ stop_join_stderr(t)
  \/ \E buf \in Buffers : render(t, buf, FALSE)
  \/ render_write_all(t)

NextLive == CallLive(Framework) \/ Background

Fairness ==
  /\ WF_vars(start(Framework, "ok"))
  /\ WF_vars(stop_sleep(Framework))
  /\ WF_vars(stop_kill(Framework))
  /\ WF_vars(stop_wait(Framework, FALSE))
  /\ WF_vars(stop_join_stdout(Framework))
  /\ WF_vars(stop_join_stderr(Framework))
  /\ WF_vars(render_write_all(Framework))
  /\ \A p \in 1..MaxProcs + 1 :
       /\ WF_vars(p <= Len(procs) /\ proc_read(p))
       /\ WF_vars(p <= Len(procs) /\ proc_exit(p))
       /\ WF_vars(p <= Len(procs) /\ stdout_thread(p))
       /\ WF_vars(p <= Len(procs) /\ stderr_thread(p))

SpecLive == Init /\ [][NextLive]_vars /\ Fairness

\* the faults of the shutdown path: wait() returns an error, a drain thread
\* ends by a panic so that its join() returns an error
Faults ==
  \/ stop_wait(Framework, TRUE)
  \/ \E p \in 1..Len(procs) : stdout_thread_panic(p)
  \/ \E p \in 1..Len(procs) : stderr_thread_panic(p)

NextFault == Next \/ Faults

SpecFault == Init /\ [][NextFault]_vars

(* ------------------------- reading the history ------------------------ *)
\* the bytes of the render calls on process p that returned success, in order
RECURSIVE OkBytes(_, _)
OkBytes(log, p) ==
  IF log = <<>> THEN <<>>
  ELSE (IF Head(log).pid = p /\ Head(log).res = "Ok"
          THEN Head(log).buf ELSE <<>>) \o OkBytes(Tail(log), p)

\* the number of bytes of all render calls that reached process p
RECURSIVE OfferedLen(_, _)
OfferedLen(log, p) ==
  IF log = <<>> THEN 0
  ELSE (IF Head(log).pid = p /\ Head(log).res # "NotNegotiated"
          THEN Len(Head(log).buf) ELSE 0) + OfferedLen(Tail(log), p)

\* indices of the render calls logged for process p
CallsOn(p) == {i \in 1..Len(renderLog) : renderLog[i].pid = p}

Pids == 1..Len(procs)

\* this step is thread t entering render
RenderCalled(t) ==
  /\ pc[t] = "idle"
  /\ Len(renderLog') = Len(renderLog) + 1
  /\ renderLog'[Len(renderLog')].by = t

\* this step is thread t running the body of start
StartRuns(t) == pc[t] = "start" /\ pc'[t] = "idle"

\* this step is thread t returning from stop
StopReturns(t) == pc[t] = "stop_join_stderr" /\ pc'[t] = "idle"

\* this step belongs to a stop call of thread t
StopPcs == {"stop_sleep", "stop_kill", "stop_wait", "stop_join_stdout",
            "stop_join_stderr"}
InStop(t) == pc[t] \in StopPcs \/ pc'[t] \in StopPcs

\* this step belongs to a stop call of thread t that found no child process
InStopWithoutChild(t) ==
  \/ pc[t] = "idle" /\ pc'[t] = "stop_join_stdout"
  \/ pc[t] \in {"stop_join_stdout", "stop_join_stderr"} /\ frame[t].pid = 0

(* ------------------------------- claims ------------------------------- *)
\* C1: the bytes written to a subprocess's stdin are the payloads of the
\* render calls that returned success, concatenated in call order, followed
\* at most by a prefix of the payload of one call that did not succeed.
C1_OrderPreserved ==
  \A p \in Pids :
    \/ procs[p].written = OkBytes(renderLog, p)
    \/ \E i \in CallsOn(p) :
         /\ renderLog[i].res # "Ok"
         /\ \E n \in 1..Len(renderLog[i].buf) :
              procs[p].written =
                OkBytes(renderLog, p) \o SubSeq(renderLog[i].buf, 1, n)

\* a first call succeeded and a second call failed after a partial write
C1_Witness ==
  /\ Len(renderLog) = 2
  /\ renderLog[1].res = "Ok"
  /\ renderLog[2].res = "Error"
  /\ renderLog[1].pid = renderLog[2].pid
  /\ renderLog[1].pid # 0
  /\ procs[renderLog[1].pid].written = renderLog[1].buf \o <<2>>

\* C2: when stop has returned after N successful render calls of S bytes
\* each, a subprocess that copies its stdin to end-of-input has received
\* exactly N*S bytes.
C2_NoByteLostAtStop ==
  \A p \in Pids : \A S \in {Len(b) : b \in Buffers} :
    ( /\ procs[p].cmd = "cat"
      /\ procs[p].status = "reaped"
      /\ pc[Framework] = "idle"
      /\ lastRet[Framework].op = "stop"
      /\ \A i \in CallsOn(p) :
           renderLog[i].res = "Ok" /\ Len(renderLog[i].buf) = S )
    => Len(procs[p].got) = Cardinality(CallsOn(p)) * S

\* C3: a render call entered while the held child process has already
\* terminated returns a fatal error at once and writes nothing.
C3_ExitedChildRenderFails ==
  [][\A t \in Threads :
       ( /\ RenderCalled(t)
         /\ IsSome(state.child_process)
         /\ procs[RenderPid(state)].status # "running" )
       => /\ renderLog'[Len(renderLog')].res \in {"Error", "NotNegotiated"}
          /\ lastRet'[t] = [op |-> "render",
                            res |-> renderLog'[Len(renderLog')].res]
          /\ pc'[t] = "idle"
          /\ procs'[RenderPid(state)].written
               = procs[RenderPid(state)].written
          /\ procs'[RenderPid(state)].pipe = procs[RenderPid(state)].pipe
    ]_vars

\* render found that the child it holds has exited, and failed
C3_Witness ==
  /\ IsSome(state.child_process)
  /\ Unwrap(state.child_process).status # "none"
  /\ IsSome(state.video_info)
  /\ pc[Framework] = "idle"
  /\ lastRet[Framework] = [op |-> "render", res |-> "Error"]

\* C4: when two or more render calls offered more than HeadK bytes to a
\* subprocess that consumed HeadK bytes and exited with failure, one of them
\* returned a fatal error.
C4_EarlyExitReported ==
  \A p \in Pids :
    ( /\ procs[p].cmd = "head"
      /\ procs[p].need = 0
      /\ procs[p].status = "reaped"
      /\ procs[p].exit = "code1"
      /\ pc[Framework] = "idle"
      /\ lastRet[Framework].op = "stop"
      /\ Cardinality(CallsOn(p)) >= 2
      /\ OfferedLen(renderLog, p) > HeadK )
    => \E i \in CallsOn(p) : renderLog[i].res = "Error"

\* C5: when stop returns the format is cleared, no process handle and no
\* drain thread handle is held and no drain thread is running; no step of
\* stop changes the configured cmd and wait-for-exit.
C5_StopEndsIdle ==
  [][\A t \in Threads :
       /\ InStop(t) => settings' = settings
       /\ StopReturns(t) =>
            /\ state' = [StateDefault EXCEPT !.cmd = state.cmd]
            /\ lastRet'[t] = [op |-> "stop", res |-> "Ok"]
            /\ \A p \in Pids :
                 procs'[p].outT = "done" /\ procs'[p].errT = "done"
    ]_vars

\* stop has returned after a cycle in which bytes were rendered
C5_Witness ==
  /\ pc[Framework] = "idle"
  /\ lastRet[Framework] = [op |-> "stop", res |-> "Ok"]
  /\ Len(procs) >= 1
  /\ procs[Len(procs)].status = "reaped"
  /\ procs[Len(procs)].written # <<>>
  /\ state = [StateDefault EXCEPT !.cmd = procs[Len(procs)].cmd]

\* C6 as claimed: a stop call that finds no process changes no component of
\* the state.
C6_StopWithoutChildChangesNothing ==
  [][\A t \in Threads :
       InStopWithoutChild(t) =>
         state' = state /\ settings' = settings /\ procs' = procs
    ]_vars

\* C6 as amended: a stop call that finds no process returns success and
\* changes nothing but the negotiated format, which it clears; when the
\* format is already absent it changes nothing.
C6_StopWithoutChildOnlyClearsFormat ==
  [][\A t \in Threads :
       InStopWithoutChild(t) =>
         /\ settings' = settings
         /\ procs' = procs
         /\ IF StopReturns(t)
              THEN /\ state' = [state EXCEPT !.video_info = None]
                   /\ lastRet'[t] = [op |-> "stop", res |-> "Ok"]
              ELSE state' = state
    ]_vars

\* stop has returned on an element that never had a process
C6_Witness ==
  /\ pc[Framework] = "idle"
  /\ lastRet[Framework] = [op |-> "stop", res |-> "Ok"]
  /\ Len(procs) = 0

\* C7: a render call entered while no format is negotiated returns the
\* not-negotiated error and writes nothing, whether or not a process is held.
C7_NotNegotiatedRejected ==
  [][\A t \in Threads :
       (RenderCalled(t) /\ ~IsSome(state.video_info))
       => /\ lastRet'[t] = [op |-> "render", res |-> "NotNegotiated"]
          /\ renderLog'[Len(renderLog')].res = "NotNegotiated"
          /\ pc'[t] = "idle"
          /\ procs' = procs
          /\ state' = state
    ]_vars

\* render was rejected as not negotiated while a running process is held
C7_Witness ==
  /\ IsSome(state.child_process)
  /\ procs[RenderPid(state)].status = "running"
  /\ ~IsSome(state.video_info)
  /\ pc[Framework] = "idle"
  /\ lastRet[Framework] = [op |-> "render", res |-> "NotNegotiated"]

\* C8: start with an empty cmd returns the settings error and changes
\* nothing; start with a non-empty cmd succeeds whenever the OS creates the
\* process, whatever failed before.
C8_EmptyCmdRejected ==
  [][\A t \in Threads :
       StartRuns(t) =>
         IF settings.cmd = ""
           THEN /\ lastRet'[t] = [op |-> "start", res |-> "Settings"]
                /\ state' = state
                /\ procs' = procs
                /\ settings' = settings
           ELSE start(t, "ok") =>
                  /\ lastRet'[t] = [op |-> "start", res |-> "Ok"]
                  /\ IsSome(state'.child_process)
                  /\ Len(procs') = Len(procs) + 1
    ]_vars

\* start failed for the missing cmd, and the cmd has been configured since
C8_Witness ==
  /\ pc[Framework] = "idle"
  /\ lastRet[Framework] = [op |-> "start", res |-> "Settings"]
  /\ settings.cmd # ""
  /\ ~IsSome(state.child_process)

\* C9: when the OS fails to create the process, start returns the fatal
\* error and leaves format, process handle, drain handles and the process
\* table as they were.
C9_SpawnErrorLeavesState ==
  [][\A t \in Threads :
       /\ (settings.cmd # "" /\ start(t, "spawn_err")) =>
            lastRet'[t] = [op |-> "start", res |-> "Failed"]
       /\ (StartRuns(t) /\ lastRet'[t].res = "Failed") =>
            state' = state /\ procs' = procs /\ settings' = settings
    ]_vars

\* start failed on a negotiated element, which is still negotiated
C9_Witness ==
  /\ pc[Framework] = "idle"
  /\ lastRet[Framework] = [op |-> "start", res |-> "Failed"]
  /\ IsSome(state.video_info)
  /\ ~IsSome(state.child_process)
  /\ ~IsSome(state.stderr_thread)

\* C10: set_caps with caps that do not parse returns an error and leaves the
\* state as it was; with caps that parse it returns success and stores them.
C10_BadCapsRejected ==
  [][\A t \in Threads : \A caps \in Caps :
       set_caps(t, caps) =>
         IF caps \in Formats
           THEN /\ lastRet'[t] = [op |-> "set_caps", res |-> "Ok"]
                /\ state' = [state EXCEPT !.video_info = Some(caps)]
           ELSE /\ lastRet'[t] = [op |-> "set_caps", res |-> "CapsError"]
                /\ state' = state
    ]_vars

\* set_caps failed on an idle element, which is still not negotiated
C10_Witness ==
  /\ pc[Framework] = "idle"
  /\ lastRet[Framework] = [op |-> "set_caps", res |-> "CapsError"]
  /\ ~IsSome(state.video_info)
  /\ ~IsSome(state.child_process)

\* this step is thread t leaving stop, by return or by panic
StopEnds(t) ==
  pc[t] \in {"stop_join_stdout", "stop_join_stderr"} /\ pc'[t] = "idle"

\* C11: whatever wait() and join() report, stop returns success and leaves
\* no process handle, no drain thread handle and no format.
C11_StopNeverFails ==
  [][\A t \in Threads :
       StopEnds(t) =>
         /\ lastRet'[t] = [op |-> "stop", res |-> "Ok"]
         /\ state' = [StateDefault EXCEPT !.cmd = state.cmd]
    ]_vars

\* C12: a stop call on a subprocess that ignores end-of-input and ends on
\* SIGHUP returns, also when the shell has started a further process that
\* holds the stdout and stderr pipes.
C12_StopReturns ==
  (pc[Framework] \in StopPcs) ~> (pc[Framework] = "idle")

\* the drain threads that were started and have not ended
RunningDrains ==
  {p \in 1..Len(procs) :
     procs[p].outT = "running" \/ procs[p].errT = "running"}

\* C13: when stop returns, no drain thread started by any earlier start is
\* still running.
C13_NoDrainOutlivesStop ==
  [][\A t \in Threads : StopEnds(t) => RunningDrains = {}]_vars

\* the subprocesses that are running, or have ended and were not reaped
Unreaped == {p \in 1..Len(procs) : procs[p].status # "reaped"}

\* C14: at most one subprocess is alive or un-reaped at any time, also when
\* start is called while a process is present.
C14_AtMostOneProcess == Cardinality(Unreaped) <= 1

\* the subprocesses that still have an open write end of their stdin pipe
OpenStdin == {p \in 1..Len(procs) : procs[p].stdinW}

\* C15: when stop returns, every subprocess has been reaped and no end of
\* its pipes is held.
C15_AllReapedAtStop ==
  [][\A t \in Threads :
       StopEnds(t) => Unreaped = {} /\ OpenStdin = {}]_vars

\* C16: every render call returns, whatever the subprocess does with its
\* stdin.
C16_RenderReturns ==
  (pc[Framework] = "render_write_all") ~> (pc[Framework] = "idle")

\* the bytes render is given
PayloadBytes == UNION {{b[i] : i \in 1..Len(b)} : b \in Buffers}

\* the write in progress can go on: there is room in the stdin pipe, or the
\* read end is gone
StdinWritable(t) ==
  LET w == PipeWrite(procs[Unwrap(state.child_process).pid], frame[t].rest)
  IN w.err \/ w.n > 0

\* C17: a line in the stderr pipe can always be taken by the drain thread,
\* whatever render is doing; render waits for nothing but the stdin pipe; and
\* only payload bytes are written to stdin.
C17_StderrIndependent ==
  /\ \A p \in 1..Len(procs) :
       /\ procs[p].errPipe # <<>> => ENABLED stderr_thread(p)
       /\ \A i \in 1..Len(procs[p].written) :
            procs[p].written[i] \in PayloadBytes
  /\ \A t \in Threads :
       /\ pc[t] = "idle" /\ stateLock = 0 /\ Len(renderLog) < MaxRenders
            => \A buf \in Buffers : ENABLED render(t, buf, FALSE)
       /\ pc[t] = "render_write_all" /\ StdinWritable(t)
            => ENABLED render_write_all(t)

\* render holds the state lock and waits for room in the stdin pipe while the
\* subprocess is blocked on a full stderr pipe, and the drain thread has
\* already taken a line
C17_Witness ==
  /\ pc[Framework] = "render_write_all"
  /\ ~StdinWritable(Framework)
  /\ \E p \in 1..Len(procs) :
       /\ procs[p].status = "running"
       /\ Len(procs[p].errPipe) = ErrCap
       /\ procs[p].errTodo # <<>>
       /\ procs[p].errLog # <<>>

\* C18: a successful start spawns one process, running the command that is
\* configured at that moment; no other step changes the command of a process
\* that is running, and setting a property touches no process.
C18_SpawnsConfiguredCmd == 
  [][/\ \A t \in Threads :
          StartRuns(t) /\ lastRet'[t].res = "Ok" =>
            /\ Len(procs') = Len(procs) + 1
            /\ procs'[Len(procs')].cmd = settings.cmd
            /\ state'.cmd = settings.cmd
     /\ \A p \in 1..Len(procs) :
          procs[p].status = "running" =>
            p <= Len(procs') /\ procs'[p].cmd = procs[p].cmd
     /\ settings' # settings => procs' = procs
    ]_vars

\* the process of a second start is running its command after cmd was set
\* to another one
C18_Witness ==
  /\ Len(procs) = 2
  /\ procs[2].status = "running"
  /\ procs[2].cmd = "head"
  /\ settings.cmd = "cat"
  /\ state.cmd = "head"

\* thread t's read of a property returns in this step
PropertyReturns(t) ==
  lastRet'[t] # lastRet[t] /\ lastRet'[t].op = "property"

\* C19: a fresh instance reports cmd = "" and wait-for-exit = 100 ms in
\* nanoseconds; a read returns the stored value and changes nothing; the
\* stored value changes only by a set, which makes the property read as the
\* value set and leaves the other property as it was.
C19_PropertiesSetAndRead ==
  /\ Property(settings, "cmd") = ""
  /\ Property(settings, "wait-for-exit") = 100000000
  /\ [][/\ \A t \in Threads :
             PropertyReturns(t) =>
               /\ lastRet'[t].value = Property(settings, lastRet'[t].res)
               /\ settings' = settings
        /\ settings' # settings =>
             \E name \in PropNames :
               /\ settings' = SetProperty(settings, name,
                                          Property(settings', name))
               /\ \A other \in PropNames \ {name} :
                    Property(settings', other) = Property(settings, other)
        /\ \A name \in PropNames :
             \A value \in PropValues(name) :
               LET s == SetProperty(settings, name, value)
               IN /\ Property(s, name) = value
                  /\ \A other \in PropNames \ {name} :
                       Property(s, other) = Property(settings, other)
      ]_vars

\* a thread has read wait-for-exit after it was set to 0 and cmd to "cat",
\* and the other thread has read cmd
C19_Witness ==
  /\ settings = [cmd |-> "cat", wait_for_exit |-> 0]
  /\ lastRet[1] = [op |-> "property", res |-> "wait-for-exit", value |-> 0]
  /\ lastRet[2] = [op |-> "property", res |-> "cmd", value |-> "cat"]

\* C20: between a start and the next stop, no render succeeds after a render
\* on the same process has returned the fatal error.
C20_FaultLatched ==
  \A i, j \in 1..Len(renderLog) :
    /\ i < j
    /\ renderLog[i].pid # 0
    /\ renderLog[i].pid = renderLog[j].pid
    /\ renderLog[i].res = "Error"
    => renderLog[j].res # "Ok"

\* C21: when the command cannot be run by the shell and start succeeded, the
\* stream does not end without a fatal error: at the return of stop one of
\* the render calls made on the process has returned an error.
C21_BadCmdReported ==
  [][\A t \in Threads :
       /\ StopEnds(t)
       /\ frame[t].pid # 0
       /\ procs[frame[t].pid].cmd = BadCmd
       /\ CallsOn(frame[t].pid) # {}
       => \E i \in CallsOn(frame[t].pid) : renderLog[i].res # "Ok"
    ]_vars

\* a render call on the process the state holds has returned the fatal error
Faulted ==
  \E i \in CallsOn(RenderPid(state)) :
    renderLog[i].pid # 0 /\ renderLog[i].res = "Error"

\* C22: a render call that begins after a render on the same process has
\* returned the fatal error leaves the process and its handle as they are:
\* it neither queries nor reaps nor writes.
C22_FaultedRenderTouchesNothing ==
  [][\A t \in Threads :
       RenderCalled(t) /\ Faulted => procs' = procs /\ state' = state
    ]_vars

\* this step takes thread t from one position of stop to another
StopStep(t, from, to) == pc[t] = from /\ pc'[t] = to

\* the position that follows each position of stop
StopOrder ==
  [stop_sleep |-> "stop_kill", stop_kill |-> "stop_wait",
   stop_wait |-> "stop_join_stdout", stop_join_stdout |-> "stop_join_stderr",
   stop_join_stderr |-> "idle"]

\* C23: with a process present, stop closes stdin, sleeps for the configured
\* time, sends SIGHUP whatever the process's status, reaps the process, joins
\* the stdout and stderr threads and clears the format, in this order, each
\* step after the one before it is done and none of them twice.
C23_StopSequence ==
  [][\A t \in Threads :
       /\ pc[t] \in DOMAIN StopOrder =>
            pc'[t] \in {pc[t], StopOrder[pc[t]]}
       /\ StopStep(t, "idle", "stop_sleep") =>
            /\ IsSome(state.child_process)
            /\ frame'[t].pid = Unwrap(state.child_process).pid
            /\ ~procs'[frame'[t].pid].stdinW
            /\ procs'[frame'[t].pid].hup = "none"
            /\ ~IsSome(state'.child_process)
       /\ StopStep(t, "stop_sleep", "stop_kill") =>
            /\ ~procs[frame[t].pid].stdinW
            /\ frame'[t].slept = settings.wait_for_exit
            /\ procs' = procs
       /\ StopStep(t, "stop_kill", "stop_wait") =>
            /\ procs[frame[t].pid].hup = "none"
            /\ procs'[frame[t].pid].hup = procs[frame[t].pid].status
            /\ procs'[frame[t].pid].status # "running"
       /\ StopStep(t, "stop_wait", "stop_join_stdout") =>
            /\ procs[frame[t].pid].hup # "none"
            /\ procs'[frame[t].pid].status = "reaped"
            /\ state' = state
            /\ state.stdout_thread = Some(frame[t].pid)
            /\ state.stderr_thread = Some(frame[t].pid)
       /\ StopStep(t, "stop_join_stdout", "stop_join_stderr")
            /\ frame[t].pid # 0 =>
            /\ procs[frame[t].pid].status = "reaped"
            /\ procs[frame[t].pid].outT = "done"
            /\ state' = [state EXCEPT !.stdout_thread = None]
       /\ StopStep(t, "stop_join_stderr", "idle") /\ frame[t].pid # 0 =>
            /\ procs[frame[t].pid].errT = "done"
            /\ state.stdout_thread = None
            /\ state' = [state EXCEPT !.stderr_thread = None,
                                      !.video_info = None]
    ]_vars

\* stop has sent SIGHUP to a process that had exited during the exit-wait
C23_Witness ==
  /\ pc[Framework] = "stop_wait"
  /\ procs[frame[Framework].pid].hup = "zombie"
  /\ frame[Framework].slept = WAIT_FOR_EXIT_DEFAULT

\* this step is thread t returning from the write of render
RenderReturns(t) == StopStep(t, "render_write_all", "idle")

\* the process thread t is writing to
WritePid == Unwrap(state.child_process).pid

\* C24: render returns success only when the write in progress has taken all
\* that was left of the payload, so that the whole payload is on stdin; it
\* returns the fatal error exactly when a write reports an error; a partial
\* write moves a prefix of what is left to stdin; and after the return
\* nothing of the payload is left with the call.
C24_WholePayloadOrError ==
  [][\A t \in Threads :
       /\ RenderReturns(t) =>
            LET buf == renderLog[Len(renderLog)].buf
                w == procs'[WritePid].written
            IN /\ lastRet'[t].res \in {"Ok", "Error"}
               /\ lastRet'[t].res = "Ok" =>
                    /\ ~PipeWrite(procs[WritePid], frame[t].rest).err
                    /\ Len(w) >= Len(buf)
                    /\ SubSeq(w, Len(w) - Len(buf) + 1, Len(w)) = buf
               /\ lastRet'[t].res = "Error" <=>
                    PipeWrite(procs[WritePid], frame[t].rest).err
               /\ lastRet'[t].res = "Error" => procs' = procs
               /\ frame'[t].rest = <<>>
       /\ StopStep(t, "render_write_all", "render_write_all")
            /\ frame'[t] # frame[t] =>
            /\ frame'[t].rest # <<>>
            /\ procs'[WritePid].written \o frame'[t].rest =
                 procs[WritePid].written \o frame[t].rest
    ]_vars

\* a render call has returned success after its payload was written in more
\* than one write
C24_Witness ==
  /\ pc[Framework] = "idle"
  /\ lastRet[Framework] = [op |-> "render", res |-> "Ok"]
  /\ Len(renderLog) = 1
  /\ renderLog[1].buf = <<2, 3>>
  /\ procs[renderLog[1].pid].written = <<2, 3>>
  /\ procs[renderLog[1].pid].got # <<>>

\* the process handle and the two drain handles are all present or all absent
HandlesPaired(st) ==
  /\ IsSome(st.child_process) <=> IsSome(st.stdout_thread)
  /\ IsSome(st.child_process) <=> IsSome(st.stderr_thread)

\* C25: whenever the state lock is free the process handle, the stdout drain
\* handle and the stderr drain handle are present together or absent
\* together; a successful start adds one process with one running thread per
\* drained stream and stores the handles of exactly these.
C25_HandlesPaired ==
  [][/\ stateLock = 0 => HandlesPaired(state)
     /\ stateLock' = 0 => HandlesPaired(state')
     /\ \A t \in Threads :
          StartRuns(t) /\ lastRet'[t].res = "Ok" =>
            LET pid == Len(procs')
            IN /\ pid = Len(procs) + 1
               /\ procs'[pid].outT = "running"
               /\ procs'[pid].errT = "running"
               /\ state'.child_process = Some([pid |-> pid, status |-> "none"])
               /\ state'.stdout_thread = Some(pid)
               /\ state'.stderr_thread = Some(pid)
    ]_vars

\* between operations of a second cycle, with all three handles present
C25_Witness ==
  /\ stateLock = 0
  /\ pc[Framework] = "idle"
  /\ Len(procs) = 2
  /\ state.child_process = Some([pid |-> 2, status |-> "none"])
  /\ state.stdout_thread = Some(2)
  /\ state.stderr_thread = Some(2)

\* a process handle is present and no format is
ProcessWithoutFormat(st) ==
  IsSome(st.child_process) /\ ~IsSome(st.video_info)

\* C26 as stated: a process handle is present only if a format is present.
C26_ProcessImpliesFormat == ~ProcessWithoutFormat(state)

\* C26: a process handle without a format comes about only by a successful
\* start made while no format is present, and for as long as it lasts nothing
\* is written to the process.
C26_ProcessWithoutFormatOnlyByStart ==
  [][/\ ~ProcessWithoutFormat(state) /\ ProcessWithoutFormat(state') =>
          /\ ~IsSome(state.video_info)
          /\ \E t \in Threads : StartRuns(t) /\ lastRet'[t].res = "Ok"
     /\ ProcessWithoutFormat(state) =>
          /\ \A t \in Threads : pc[t] # "render_write_all"
          /\ \A p \in 1..Len(procs) : procs'[p].written = procs[p].written
    ]_vars

\* start has succeeded on an element without a format
C26_Witness ==
  /\ ProcessWithoutFormat(state)
  /\ pc[Framework] = "idle"
  /\ lastRet[Framework] = [op |-> "start", res |-> "Ok"]
  /\ procs[RenderPid(state)].status = "running"

\* this step is thread t entering stop
StopCalled(t) ==
  StopStep(t, "idle", "stop_sleep") \/ StopStep(t, "idle", "stop_join_stdout")

\* C27: render and stop exclude each other from the first to the last
\* statement: no render begins while a stop is in progress and no stop begins
\* while a render is writing; bytes reach a process only while its stdin is
\* open, it has not been signalled and the state holds it; a render that
\* begins when stop has removed the process is rejected and writes nothing.
C27_RenderStopExclusive ==
  [][/\ \A t \in Threads :
          /\ RenderCalled(t) => \A u \in Threads : pc[u] \notin StopPcs
          /\ StopCalled(t) => \A u \in Threads : pc[u] # "render_write_all"
          /\ RenderCalled(t) /\ ~IsSome(state.child_process) =>
               /\ lastRet'[t].res =
                    IF IsSome(state.video_info) THEN "Error"
                    ELSE "NotNegotiated"
               /\ procs' = procs
     /\ \A p \in 1..Len(procs) :
          Len(procs'[p].written) > Len(procs[p].written) =>
            /\ procs[p].stdinW
            /\ procs[p].hup = "none"
            /\ RenderPid(state) = p
    ]_vars

\* the streaming thread rendered to the process, the other thread stopped
\* the element, and the streaming thread's next render was rejected
C27_Witness ==
  /\ Len(renderLog) = 2
  /\ renderLog[1] = [by |-> 1, pid |-> 1, buf |-> <<2, 3>>, res |-> "Ok"]
  /\ renderLog[2].by = 1
  /\ renderLog[2].pid = 0
  /\ renderLog[2].res = "NotNegotiated"
  /\ lastRet[2] = [op |-> "stop", res |-> "Ok"]

\* C28: stop sleeps for the value wait-for-exit has when stop locks the
\* settings, whatever it was at start; the settings stay locked by stop, and
\* so unchanged, from the sleep to the end of the wait.
C28_SleepsConfiguredTime ==
  [][\A t \in Threads :
       /\ StopStep(t, "stop_sleep", "stop_kill") =>
            /\ frame'[t].slept = settings.wait_for_exit
            /\ settingsLock' = t
       /\ pc[t] \in {"stop_kill", "stop_wait"} =>
            /\ settingsLock = t
            /\ settings' = settings
            /\ frame[t].slept = settings.wait_for_exit
    ]_vars

\* stop has slept for 0, a value set after construction, on a process that
\* was rendered to
C28_Witness ==
  /\ pc[Framework] = "stop_kill"
  /\ frame[Framework].slept = 0
  /\ settings.wait_for_exit = 0
  /\ procs[frame[Framework].pid].written # <<>>

\* this step is thread t returning from unlock or unlock_stop
UnlockReturns(t) ==
  /\ lastRet'[t] # lastRet[t]
  /\ lastRet'[t].op \in {"unlock", "unlock_stop"}

\* C29: a thread that is in no other call can run unlock and unlock_stop in
\* every state, whoever holds the mutexes; they return success and leave the
\* configuration, the format, the handles, the locks, the calls in progress
\* and the processes and threads as they are.
C29_UnlockChangesNothing ==
  [][\A t \in Threads :
       /\ pc[t] = "idle" => ENABLED unlock(t) /\ ENABLED unlock_stop(t)
       /\ UnlockReturns(t) =>
            /\ lastRet'[t].res = "Ok"
            /\ UNCHANGED <<settings, state, settingsLock, stateLock, pc,
                           frame, procs, renderLog>>
    ]_vars

\* the second thread has run unlock_stop, and the streaming thread is in the
\* write of a render with the state mutex held
C29_Witness ==
  /\ lastRet[2] = [op |-> "unlock_stop", res |-> "Ok"]
  /\ pc[Framework] = "render_write_all"
  /\ stateLock = Framework

\* the process the state holds has ended and a render call on it has
\* returned the fatal error
FaultedOnExit ==
  Faulted /\ procs[RenderPid(state)].status # "running"

\* C30: the faulted condition ends only with a stop call; stop on the failed
\* process ends with the process reaped and the element idle; and a process
\* is spawned only by start.
C30_FaultEndsOnlyByStop ==
  [][/\ FaultedOnExit /\ ~FaultedOnExit' => \E t \in Threads : StopCalled(t)
     /\ \A t \in Threads :
          StopEnds(t) /\ frame[t].pid # 0 =>
            /\ procs'[frame[t].pid].status = "reaped"
            /\ state' = [StateDefault EXCEPT !.cmd = state.cmd]
     /\ Len(procs') > Len(procs) =>
          \E t \in Threads : StartRuns(t) /\ lastRet'[t].res = "Ok"
    ]_vars

\* the lines of a sequence that decode as text, in order
DecodableLines(lines) == SelectSeq(lines, LAMBDA l : l # Undecodable)

\* a is an initial part of b
IsPrefix(a, b) == Len(a) <= Len(b) /\ SubSeq(b, 1, Len(a)) = a

\* C31: the stderr thread ends only at end-of-stream; a line taken from the
\* pipe changes nothing but the pipe and the log, and an undecodable line not
\* even the log; what is logged and what is still in the pipe are, in order,
\* the decodable lines the command has written.
C31_UndecodableLineDropped ==
  [][\A p \in 1..Len(procs) :
       /\ procs[p].errT = "running" /\ p <= Len(procs')
            /\ procs'[p].errT # "running" =>
            procs[p].errPipe = <<>> /\ OutputClosed(procs[p])
       /\ p <= Len(procs') /\ procs[p].errPipe # <<>>
            /\ procs'[p].errPipe = Tail(procs[p].errPipe) =>
            /\ procs'[p].errLog =
                 IF Head(procs[p].errPipe) = Undecodable
                   THEN procs[p].errLog
                   ELSE Append(procs[p].errLog, Head(procs[p].errPipe))
            /\ UNCHANGED <<settings, state, settingsLock, stateLock, pc,
                           frame, renderLog, lastRet>>
       /\ IsPrefix(procs[p].errLog \o DecodableLines(procs[p].errPipe),
                   DecodableLines(ErrScript(procs[p].cmd)))
    ]_vars

\* the line after the undecodable one has been logged after the line before
\* it, and the thread is still running
C31_Witness ==
  \E p \in 1..Len(procs) :
    /\ procs[p].errLog = <<"e1", "e2">>
    /\ procs[p].errT = "running"
    /\ procs[p].status = "running"

\* C32: from a successful start to the next call of stop the state holds the
\* same process; its stdin stays open and it is not signalled; while it runs
\* its status changes only by its own exit, and no call blocks in a wait for
\* it (the liveness query of render returns at once and reaps only a process
\* that has exited); and what is written to its stdin only grows.
C32_ProcessPersistsUntilStop ==
  [][RenderPid(state) # 0 /\ ~(\E t \in Threads : StopCalled(t)) =>
       LET p == RenderPid(state)
       IN /\ RenderPid(state') = p
          /\ procs[p].stdinW /\ procs'[p].stdinW
          /\ procs[p].hup = "none" /\ procs'[p].hup = "none"
          /\ procs[p].status = "running" =>
               \/ procs'[p].status = "running"
               \/ procs'[p].status = "zombie" /\ ProcFinished(procs[p])
          /\ procs'[p].status # procs[p].status =>
               procs[p].status \in {"running", "zombie"}
          /\ IsPrefix(procs[p].written, procs'[p].written)
          /\ \A t \in Threads : pc'[t] \notin StopPcs
    ]_vars

\* two render calls have succeeded on the same process, and its stdin holds
\* the payload of the first followed by the payload of the second
C32_Witness ==
  /\ Len(renderLog) = 2
  /\ renderLog[1].res = "Ok" /\ renderLog[2].res = "Ok"
  /\ renderLog[1].pid = RenderPid(state)
  /\ renderLog[2].pid = RenderPid(state)
  /\ RenderPid(state) # 0
  /\ procs[RenderPid(state)].written = renderLog[1].buf \o renderLog[2].buf
  /\ procs[RenderPid(state)].status = "running"
  /\ procs[RenderPid(state)].stdinW

\* thread t is in start with the settings mutex and waits for the state
\* mutex, which thread u holds in stop while it waits for the settings mutex
LockCycle(t, u) ==
  /\ pc[t] = "start" /\ settingsLock = t
  /\ pc[u] = "stop_sleep" /\ stateLock = u

\* C33: no two calls wait for each other's mutex.
C33_NoLockCycle ==
  \A t, u \in Threads : ~LockCycle(t, u)

\* C34: the termination signal never goes to a process id whose process
\* was already reaped.
C34_NeverSignalsReapedPid ==
  \A p \in 1..Len(procs) : procs[p].hup # "reaped"

\* the stored state as its owner sees it: the format, the process the handle
\* stands for, and the two drain handles
StoredHandles(st) ==
  [video_info |-> st.video_info, pid |-> RenderPid(st),
   stdout_thread |-> st.stdout_thread, stderr_thread |-> st.stderr_thread]

\* this step belongs to a render call of thread t
InRender(t) == RenderCalled(t) \/ pc[t] = "render_write_all"

\* this step is thread t returning an error from render
RenderFails(t) ==
  /\ InRender(t) /\ pc'[t] = "idle"
  /\ lastRet'[t].op = "render" /\ lastRet'[t].res # "Ok"

\* C35: no step of a render call that returns an error changes the negotiated
\* format, the process the handle stands for or a drain handle; the process
\* is neither removed from the state, signalled nor replaced, and its stdin
\* stays open; a stop that follows on a faulted process takes that process
\* and goes through every step of the shutdown sequence.
C35_FailedRenderKeepsState ==
  [][\A t \in Threads :
       /\ InRender(t)
            => /\ StoredHandles(state') = StoredHandles(state)
               /\ state'.cmd = state.cmd
               /\ Len(procs') = Len(procs)
       /\ RenderFails(t)
            => \A p \in 1..Len(procs) :
                 /\ procs'[p].hup = procs[p].hup
                 /\ procs'[p].stdinW = procs[p].stdinW
                 /\ procs'[p].written = procs[p].written
       /\ StopCalled(t) /\ Faulted
            => /\ StopStep(t, "idle", "stop_sleep")
               /\ frame'[t].pid = RenderPid(state)
               /\ ~procs'[frame'[t].pid].stdinW
       /\ pc[t] \in StopPcs /\ pc'[t] # pc[t] => pc'[t] = StopOrder[pc[t]]
    ]_vars

\* render found the process exited and returned the error, and the stop that
\* followed took that process and has gone through its shutdown sequence
C35_Witness ==
  /\ pc[Framework] = "idle"
  /\ lastRet[Framework] = [op |-> "stop", res |-> "Ok"]
  /\ Len(procs) = 1
  /\ procs[1].hup = "reaped"
  /\ \E i \in CallsOn(1) : renderLog[i].res = "Error"
  /\ ~IsSome(state.child_process)

\* C36: a set_caps that succeeds stores the format and changes nothing else:
\* the process handle, the drain handles, the configured command and every
\* process (its stdin included) are as before; the render call that follows
\* it is logged on the process the state held before and writes to no other.
C36_SetCapsChangesOnlyFormat ==
  [][\A t \in Threads :
       /\ \A caps \in Formats :
            set_caps(t, caps)
              => /\ lastRet'[t] = [op |-> "set_caps", res |-> "Ok"]
                 /\ state' = [state EXCEPT !.video_info = Some(caps)]
                 /\ RenderPid(state') = RenderPid(state)
                 /\ UNCHANGED <<settings, procs, frame, renderLog,
                                settingsLock, stateLock>>
       /\ RenderCalled(t) /\ lastRet[t] = [op |-> "set_caps", res |-> "Ok"]
            => /\ renderLog'[Len(renderLog')].pid = RenderPid(state)
               /\ renderLog'[Len(renderLog')].res # "NotNegotiated"
               /\ RenderPid(state') = RenderPid(state)
       /\ pc[t] = "render_write_all"
            => \A p \in 1..Len(procs) :
                 p # WritePid => procs'[p].written = procs[p].written
    ]_vars

\* set_caps has just succeeded on an element whose process is running and
\* has been written to: the process, its stdin and the handles are in place
C36_Witness ==
  /\ pc[Framework] = "idle"
  /\ lastRet[Framework] = [op |-> "set_caps", res |-> "Ok"]
  /\ state.video_info = Some("I420")
  /\ RenderPid(state) = 1
  /\ state.stdout_thread = Some(1) /\ state.stderr_thread = Some(1)
  /\ procs[1].status = "running" /\ procs[1].stdinW
  /\ \E i \in CallsOn(1) : renderLog[i].res = "Ok"
  /\ procs[1].written # <<>>

\* C37: a render call on a state with a format and no process returns
\* Error, and on a state with neither it returns NotNegotiated; either way it
\* returns at once, spawns no process and changes neither the state, the
\* settings nor any process.
C37_RenderWithoutProcess ==
  [][\A t \in Threads :
       RenderCalled(t) /\ ~IsSome(state.child_process)
         => /\ lastRet'[t] =
                 [op |-> "render",
                  res |-> IF IsSome(state.video_info)
                            THEN "Error" ELSE "NotNegotiated"]
            /\ pc'[t] = "idle"
            /\ Len(procs') = Len(procs)
            /\ UNCHANGED <<state, settings, procs, frame, settingsLock,
                           stateLock>>
    ]_vars

\* render was called with a format negotiated and before any start: it
\* returned Error and there is still no process
C37_Witness ==
  /\ pc[Framework] = "idle"
  /\ lastRet[Framework] = [op |-> "render", res |-> "Error"]
  /\ IsSome(state.video_info)
  /\ ~IsSome(state.child_process)
  /\ procs = <<>>
  /\ renderLog # <<>>
  /\ renderLog[Len(renderLog)].pid = 0
  /\ renderLog[Len(renderLog)].res = "Error"

====
